---- MODULE Spec2Model ----
(***************************************************************************)
(* Model of login_checker.py: the five LoginChecker strategies             *)
(* (ListLinearSearchChecker, SortedArrayBinarySearchChecker,               *)
(* HashTableChecker, BloomFilterChecker, CuckooFilterChecker), their       *)
(* add_login / check_exists / reset_stats operations and the counters      *)
(* comparisons and login_count.                                            *)
(*                                                                         *)
(* One behaviour follows one checker instance.  Identifiers are the        *)
(* integers 1..MaxId, ordered as Python orders the strings they stand for. *)
(* The two filters (pybloom_live.BloomFilter, cuckoo_filter.CuckooFilter)  *)
(* are libraries whose code is not part of the sources; they are modelled  *)
(* from the specification's description of them (sections 3, 4.5, 4.6, 7). *)
(***************************************************************************)
EXTENDS Integers, Sequences, FiniteSets, TLC

\* ------------------------------------------------------------------ bounds
MaxId == 5                 \* identifiers are 1..MaxId
MaxComparisons == 6        \* add/check are explored while comparisons is below this
MaxTableSize == 2          \* fingerprint tables of 1..MaxTableSize buckets
NumFingerprints == 2       \* distinct fingerprint values
BloomSlices == 2           \* hash slices of the bit array
BloomBitsPerSlice == 2     \* bits per slice
MaxLogins == 2             \* run_test: length of a list loaded from a file
MaxLookups == 4            \* run_test: num_lookups is 0..MaxLookups
MaxFleetId == 5            \* identifiers given to five checkers side by side

\* ------------------------------------------------------- program constants
BucketSize == 4            \* CuckooFilter(..., bucket_size=4, ...)
DefaultCapacity == 1000000 \* capacity=1000000
DefaultErrorRate == 1      \* error_rate=0.001, in thousandths

Ids == 1..MaxId

\* The identifiers of the scenario that inserts nine identifiers in turn.
ScenarioIdSet == 1..9

\* Constructor arguments <<capacity, error_rate>> explored for the two
\* filter-backed checkers; error rates are in thousandths (1500 is 1.5).
Configurations ==
    { <<DefaultCapacity, DefaultErrorRate>>,
      <<0, DefaultErrorRate>>,
      <<DefaultCapacity, 1500>>,
      <<-1, -1>> }

VARIABLES
    kind,          \* the checker's class
    capacity,      \* constructor argument capacity
    error_rate,    \* constructor argument error_rate, in thousandths
    table_size,    \* number of buckets of the fingerprint table (0: no table)
    status,        \* "ready", or "ConstructionError" when __init__ raised
    logins,        \* self.logins of the list strategies (a sequence)
    login_set,     \* self.logins of the set-backed strategies (a set)
    bloom,         \* self.bloom: the set bits, as <<slice, position>>
    buckets,       \* self.cuckoo: bucket index -> sequence of fingerprints
    comparisons,   \* self.comparisons
    login_count,   \* self.login_count
    op,            \* the last operation called
    arg,           \* its argument (0 when it has none)
    result,        \* what it returned: "True", "False", "None", or the
                   \* exception it raised ("CapacityExceeded")
    accepted,      \* history: identifiers for which add_login returned True
    called,        \* history: identifiers add_login was called with
    ops,           \* history: add_login / check_exists calls counted by the
                   \* caller since construction or the last reset_stats
    pc,            \* run_test: "add", "lookup", "done", "raised"; "none"
                   \* when the checker is driven by another caller
    test_logins,   \* run_test: logins
    num_lookups,   \* run_test: num_lookups
    cursor,        \* run_test: position in the current loop
    add_comparisons,     \* run_test: add_comparisons
    lookup_comparisons,  \* run_test: lookup_comparisons
    found_count,         \* run_test: found_count
    add_charged,   \* history: comparisons charged by run_test's adds
    lookup_charged, \* history: comparisons charged by run_test's lookups
    fleet          \* one instance of each class, given the same calls:
                   \* class -> the instance's fields and its last result

harness == <<pc, test_logins, num_lookups, cursor, add_comparisons,
             lookup_comparisons, found_count, add_charged, lookup_charged>>

vars == <<kind, capacity, error_rate, table_size, status, logins, login_set,
          bloom, buckets, comparisons, login_count, op, arg, result,
          accepted, called, ops, harness, fleet>>

config == <<kind, capacity, error_rate, table_size, status>>

\* ------------------------------------------------------------ the filters

\* Bloom filter: one bit per slice for each key.
BloomPositions(name) ==
    { <<s, (name \div (BloomBitsPerSlice ^ (s - 1))) % BloomBitsPerSlice>> :
        s \in 1..BloomSlices }

\* name in self.bloom
BloomContains(b, name) == BloomPositions(name) \subseteq b

\* self.bloom.add(name)
BloomAdd(b, name) == b \cup BloomPositions(name)

\* BloomFilter(capacity, error_rate) rejects a malformed configuration.
BloomFilterValid(cap, err) == cap > 0 /\ 0 < err /\ err < 1000

\* Fingerprint table: fingerprint and the two candidate buckets of a key.
\* Runs of BucketSize * NumFingerprints identifiers share their first
\* bucket, so that a bucket can fill up; the second bucket is derived from
\* the first and the fingerprint.
Fingerprint(name) == (name % NumFingerprints) + 1

Index1(name, size) == (name \div (BucketSize * NumFingerprints)) % size

Index2(name, size) == (Index1(name, size) + Fingerprint(name)) % size

InBucket(bucket, f) == \E i \in 1..Len(bucket) : bucket[i] = f

\* name in self.cuckoo
CuckooContains(t, size, name) ==
    \/ InBucket(t[Index1(name, size)], Fingerprint(name))
    \/ InBucket(t[Index2(name, size)], Fingerprint(name))

\* Both candidate buckets of the key are full: insert cannot place it.
CuckooFull(t, size, name) ==
    /\ Len(t[Index1(name, size)]) >= BucketSize
    /\ Len(t[Index2(name, size)]) >= BucketSize

\* self.cuckoo.insert(name) when a candidate bucket has room (no relocation).
CuckooInsert(t, size, name) ==
    IF Len(t[Index1(name, size)]) < BucketSize
    THEN [t EXCEPT ![Index1(name, size)] = Append(@, Fingerprint(name))]
    ELSE [t EXCEPT ![Index2(name, size)] = Append(@, Fingerprint(name))]

\* ------------------------------------------------------------ construction

\* LoginChecker.__init__ and the subclasses' __init__
ListLinearSearchCheckerInit == "ready"

SortedArrayBinarySearchCheckerInit == "ready"

HashTableCheckerInit == "ready"

\* Variant: the filter is built with its defaults, whatever the arguments.
BloomFilterCheckerInitDefaults(cap, err) ==
    IF BloomFilterValid(DefaultCapacity, DefaultErrorRate)
    THEN "ready" ELSE "ConstructionError"

\* BloomFilterChecker.__init__ hands both arguments to BloomFilter(...)
BloomFilterCheckerInit(cap, err) ==
    IF BloomFilterValid(cap, err) THEN "ready" ELSE "ConstructionError"

\* CuckooFilterChecker.__init__ ignores both arguments
CuckooFilterCheckerInit(cap, err) == "ready"

EmptyChecker ==
    /\ logins = << >>
    /\ login_set = {}
    /\ bloom = {}
    /\ comparisons = 0
    /\ login_count = 0
    /\ op = "none"
    /\ arg = 0
    /\ result = "None"
    /\ accepted = {}
    /\ called = {}

\* No run_test is in progress: the checker is driven call by call.
NoHarness ==
    /\ ops = 0
    /\ pc = "none"
    /\ test_logins = << >>
    /\ num_lookups = 0
    /\ cursor = 0
    /\ add_comparisons = 0
    /\ lookup_comparisons = 0
    /\ found_count = 0
    /\ add_charged = 0
    /\ lookup_charged = 0
    /\ fleet = << >>

Init ==
    /\ EmptyChecker
    /\ NoHarness
    /\ \/ /\ kind = "ListLinearSearchChecker"
          /\ capacity = DefaultCapacity /\ error_rate = DefaultErrorRate
          /\ table_size = 0
          /\ status = ListLinearSearchCheckerInit
       \/ /\ kind = "SortedArrayBinarySearchChecker"
          /\ capacity = DefaultCapacity /\ error_rate = DefaultErrorRate
          /\ table_size = 0
          /\ status = SortedArrayBinarySearchCheckerInit
       \/ /\ kind = "HashTableChecker"
          /\ capacity = DefaultCapacity /\ error_rate = DefaultErrorRate
          /\ table_size = 0
          /\ status = HashTableCheckerInit
       \/ /\ kind = "BloomFilterChecker"
          /\ \E c \in Configurations : capacity = c[1] /\ error_rate = c[2]
          /\ table_size = 0
          /\ status = BloomFilterCheckerInit(capacity, error_rate)
       \/ /\ kind = "CuckooFilterChecker"
          /\ \E c \in Configurations : capacity = c[1] /\ error_rate = c[2]
          /\ table_size \in 1..MaxTableSize
          /\ status = CuckooFilterCheckerInit(capacity, error_rate)
    /\ buckets = [i \in 0..(table_size - 1) |-> << >>]

\* ------------------------------------------------------------- operations

Ready(k) == kind = k /\ status = "ready"

\* Callers other than run_test are explored while comparisons is below
\* MaxComparisons; run_test is bounded by its own arguments.
Busy(k) == Ready(k) /\ (pc = "none" => comparisons < MaxComparisons)

Observe(o, a, r) ==
    /\ op' = o
    /\ arg' = a
    /\ result' = r
    /\ called' = IF o = "add_login" THEN called \cup {a} ELSE called
    /\ accepted' = IF o = "add_login" /\ r = "True"
                   THEN accepted \cup {a} ELSE accepted

\* Variant: reset_stats re-runs the base initialiser, clearing login_count.
ResetStatsAll ==
    /\ status = "ready"
    /\ comparisons' = 0
    /\ login_count' = 0
    /\ Observe("reset_stats", 0, "None")
    /\ UNCHANGED <<logins, login_set, bloom, buckets>>
    /\ UNCHANGED config

\* LoginChecker.reset_stats
ResetStats ==
    /\ status = "ready"
    /\ comparisons' = 0
    /\ Observe("reset_stats", 0, "None")
    /\ UNCHANGED <<logins, login_set, bloom, buckets, login_count>>
    /\ UNCHANGED config

\* ---------------------------------------------- ListLinearSearchChecker

\* Variant: the counter is incremented after the equality test, so the
\* matching element is not charged.
RECURSIVE LinearSearchLateCount(_, _, _)
LinearSearchLateCount(list, name, i) ==
    IF i >= Len(list)
    THEN [found |-> FALSE, comparisons |-> i]
    ELSE IF list[i + 1] = name
         THEN [found |-> TRUE, comparisons |-> i]
         ELSE LinearSearchLateCount(list, name, i + 1)

\* The scan "for login in self.logins" from element i (0-based) on:
\* whether name was found, and the number of elements examined.
RECURSIVE LinearSearch(_, _, _)
LinearSearch(list, name, i) ==
    IF i >= Len(list)
    THEN [found |-> FALSE, comparisons |-> i]
    ELSE IF list[i + 1] = name
         THEN [found |-> TRUE, comparisons |-> i + 1]
         ELSE LinearSearch(list, name, i + 1)

\* Variant: the duplicate scan starts at the second element.
ListAddLoginSkipFirst(name) ==
    /\ Busy("ListLinearSearchChecker")
    /\ LET s == LinearSearch(logins, name, 1) IN
       /\ comparisons' = comparisons + s.comparisons
       /\ IF s.found
          THEN /\ Observe("add_login", name, "False")
               /\ UNCHANGED <<logins, login_count>>
          ELSE /\ logins' = Append(logins, name)
               /\ login_count' = login_count + 1
               /\ Observe("add_login", name, "True")
    /\ UNCHANGED <<login_set, bloom, buckets>>
    /\ UNCHANGED config

ListAddLogin(name) ==
    /\ Busy("ListLinearSearchChecker")
    /\ LET s == LinearSearch(logins, name, 0) IN
       /\ comparisons' = comparisons + s.comparisons
       /\ IF s.found
          THEN /\ Observe("add_login", name, "False")
               /\ UNCHANGED <<logins, login_count>>
          ELSE /\ logins' = Append(logins, name)
               /\ login_count' = login_count + 1
               /\ Observe("add_login", name, "True")
    /\ UNCHANGED <<login_set, bloom, buckets>>
    /\ UNCHANGED config

\* Variant: a hit moves the element to the front of the list.
ListCheckExistsMoveToFront(name) ==
    /\ Busy("ListLinearSearchChecker")
    /\ LET s == LinearSearch(logins, name, 0) IN
       /\ comparisons' = comparisons + s.comparisons
       /\ Observe("check_exists", name, IF s.found THEN "True" ELSE "False")
       /\ logins' = IF s.found
                    THEN <<name>> \o SelectSeq(logins, LAMBDA e : e # name)
                    ELSE logins
    /\ UNCHANGED <<login_set, bloom, buckets, login_count>>
    /\ UNCHANGED config

ListCheckExists(name) ==
    /\ Busy("ListLinearSearchChecker")
    /\ LET s == LinearSearch(logins, name, 0) IN
       /\ comparisons' = comparisons + s.comparisons
       /\ Observe("check_exists", name, IF s.found THEN "True" ELSE "False")
    /\ UNCHANGED <<logins, login_set, bloom, buckets, login_count>>
    /\ UNCHANGED config

\* --------------------------------------- SortedArrayBinarySearchChecker

\* The loop "while left <= right" on 0-based indices: whether name was
\* found, the final left, and the number of probes of self.logins[mid].
RECURSIVE BinarySearch(_, _, _, _, _)
BinarySearch(list, name, left, right, count) ==
    IF left > right
    THEN [found |-> FALSE, left |-> left, comparisons |-> count]
    ELSE LET mid == (left + right) \div 2 IN
         IF list[mid + 1] = name
         THEN [found |-> TRUE, left |-> left, comparisons |-> count + 1]
         ELSE IF list[mid + 1] < name
              THEN BinarySearch(list, name, mid + 1, right, count + 1)
              ELSE BinarySearch(list, name, left, mid - 1, count + 1)

\* self.logins.insert(index, name), index 0-based
ListInsert(list, index, name) ==
    SubSeq(list, 1, index) \o <<name>> \o SubSeq(list, index + 1, Len(list))

\* Variant: a new identifier is appended instead of inserted at left.
SortedAddLoginAppend(name) ==
    /\ Busy("SortedArrayBinarySearchChecker")
    /\ LET s == BinarySearch(logins, name, 0, Len(logins) - 1, 0) IN
       /\ comparisons' = comparisons + s.comparisons
       /\ IF s.found
          THEN /\ Observe("add_login", name, "False")
               /\ UNCHANGED <<logins, login_count>>
          ELSE /\ logins' = Append(logins, name)
               /\ login_count' = login_count + 1
               /\ Observe("add_login", name, "True")
    /\ UNCHANGED <<login_set, bloom, buckets>>
    /\ UNCHANGED config

SortedAddLogin(name) ==
    /\ Busy("SortedArrayBinarySearchChecker")
    /\ LET s == BinarySearch(logins, name, 0, Len(logins) - 1, 0) IN
       /\ comparisons' = comparisons + s.comparisons
       /\ IF s.found
          THEN /\ Observe("add_login", name, "False")
               /\ UNCHANGED <<logins, login_count>>
          ELSE /\ logins' = ListInsert(logins, s.left, name)
               /\ login_count' = login_count + 1
               /\ Observe("add_login", name, "True")
    /\ UNCHANGED <<login_set, bloom, buckets>>
    /\ UNCHANGED config

\* Variant: the sorted list is scanned from the start.
SortedCheckExistsLinear(name) ==
    /\ Busy("SortedArrayBinarySearchChecker")
    /\ LET s == LinearSearch(logins, name, 0) IN
       /\ comparisons' = comparisons + s.comparisons
       /\ Observe("check_exists", name, IF s.found THEN "True" ELSE "False")
    /\ UNCHANGED <<logins, login_set, bloom, buckets, login_count>>
    /\ UNCHANGED config

SortedCheckExists(name) ==
    /\ Busy("SortedArrayBinarySearchChecker")
    /\ LET s == BinarySearch(logins, name, 0, Len(logins) - 1, 0) IN
       /\ comparisons' = comparisons + s.comparisons
       /\ Observe("check_exists", name, IF s.found THEN "True" ELSE "False")
    /\ UNCHANGED <<logins, login_set, bloom, buckets, login_count>>
    /\ UNCHANGED config

\* ------------------------------------------------------ HashTableChecker

\* Variant: login_count is incremented before the duplicate test.
HashAddLoginCountFirst(name) ==
    /\ Busy("HashTableChecker")
    /\ comparisons' = comparisons + 1
    /\ login_count' = login_count + 1
    /\ IF name \in login_set
       THEN /\ Observe("add_login", name, "False")
            /\ UNCHANGED login_set
       ELSE /\ login_set' = login_set \cup {name}
            /\ Observe("add_login", name, "True")
    /\ UNCHANGED <<logins, bloom, buckets>>
    /\ UNCHANGED config

HashAddLogin(name) ==
    /\ Busy("HashTableChecker")
    /\ comparisons' = comparisons + 1
    /\ IF name \in login_set
       THEN /\ Observe("add_login", name, "False")
            /\ UNCHANGED <<login_set, login_count>>
       ELSE /\ login_set' = login_set \cup {name}
            /\ login_count' = login_count + 1
            /\ Observe("add_login", name, "True")
    /\ UNCHANGED <<logins, bloom, buckets>>
    /\ UNCHANGED config

\* Variant: the lookup is not charged.
HashCheckExistsFree(name) ==
    /\ Busy("HashTableChecker")
    /\ comparisons' = comparisons
    /\ Observe("check_exists", name,
               IF name \in login_set THEN "True" ELSE "False")
    /\ UNCHANGED <<logins, login_set, bloom, buckets, login_count>>
    /\ UNCHANGED config

HashCheckExists(name) ==
    /\ Busy("HashTableChecker")
    /\ comparisons' = comparisons + 1
    /\ Observe("check_exists", name,
               IF name \in login_set THEN "True" ELSE "False")
    /\ UNCHANGED <<logins, login_set, bloom, buckets, login_count>>
    /\ UNCHANGED config

\* ---------------------------------------------------- BloomFilterChecker

\* Variant: the second comparison is charged only for a duplicate.
BloomAddLoginChargeOnce(name) ==
    /\ Busy("BloomFilterChecker")
    /\ IF BloomContains(bloom, name) /\ name \in login_set
       THEN /\ comparisons' = comparisons + 2
            /\ Observe("add_login", name, "False")
            /\ UNCHANGED <<bloom, login_set, login_count>>
       ELSE /\ comparisons' = comparisons + 1
            /\ bloom' = BloomAdd(bloom, name)
            /\ login_set' = login_set \cup {name}
            /\ login_count' = login_count + 1
            /\ Observe("add_login", name, "True")
    /\ UNCHANGED <<logins, buckets>>
    /\ UNCHANGED config

BloomAddLogin(name) ==
    /\ Busy("BloomFilterChecker")
    /\ IF BloomContains(bloom, name)
       THEN IF name \in login_set
            THEN /\ comparisons' = comparisons + 2
                 /\ Observe("add_login", name, "False")
                 /\ UNCHANGED <<bloom, login_set, login_count>>
            ELSE /\ comparisons' = comparisons + 2
                 /\ bloom' = BloomAdd(bloom, name)
                 /\ login_set' = login_set \cup {name}
                 /\ login_count' = login_count + 1
                 /\ Observe("add_login", name, "True")
       ELSE /\ comparisons' = comparisons + 1
            /\ bloom' = BloomAdd(bloom, name)
            /\ login_set' = login_set \cup {name}
            /\ login_count' = login_count + 1
            /\ Observe("add_login", name, "True")
    /\ UNCHANGED <<logins, buckets>>
    /\ UNCHANGED config

\* Variant: the filter test is inverted ("if name in self.bloom").
BloomCheckExistsInverted(name) ==
    /\ Busy("BloomFilterChecker")
    /\ IF BloomContains(bloom, name)
       THEN /\ comparisons' = comparisons + 1
            /\ Observe("check_exists", name, "False")
       ELSE /\ comparisons' = comparisons + 2
            /\ Observe("check_exists", name,
                       IF name \in login_set THEN "True" ELSE "False")
    /\ UNCHANGED <<logins, login_set, bloom, buckets, login_count>>
    /\ UNCHANGED config

BloomCheckExists(name) ==
    /\ Busy("BloomFilterChecker")
    /\ IF ~BloomContains(bloom, name)
       THEN /\ comparisons' = comparisons + 1
            /\ Observe("check_exists", name, "False")
       ELSE /\ comparisons' = comparisons + 2
            /\ Observe("check_exists", name,
                       IF name \in login_set THEN "True" ELSE "False")
    /\ UNCHANGED <<logins, login_set, bloom, buckets, login_count>>
    /\ UNCHANGED config

\* --------------------------------------------------- CuckooFilterChecker

\* Variant: a failed insert is swallowed and the identifier recorded.
CuckooAddLoginSwallow(name) ==
    /\ Busy("CuckooFilterChecker")
    /\ LET maybe == CuckooContains(buckets, table_size, name) IN
       /\ comparisons' = comparisons + (IF maybe THEN 2 ELSE 1)
       /\ IF maybe /\ name \in login_set
          THEN /\ Observe("add_login", name, "False")
               /\ UNCHANGED <<buckets, login_set, login_count>>
          ELSE /\ buckets' = IF CuckooFull(buckets, table_size, name)
                             THEN buckets
                             ELSE CuckooInsert(buckets, table_size, name)
               /\ login_set' = login_set \cup {name}
               /\ login_count' = login_count + 1
               /\ Observe("add_login", name, "True")
    /\ UNCHANGED <<logins, bloom>>
    /\ UNCHANGED config

\* Variant: a failed insert is reported as a duplicate.
CuckooAddLoginAsDuplicate(name) ==
    /\ Busy("CuckooFilterChecker")
    /\ LET maybe == CuckooContains(buckets, table_size, name) IN
       /\ comparisons' = comparisons + (IF maybe THEN 2 ELSE 1)
       /\ IF (maybe /\ name \in login_set)
             \/ CuckooFull(buckets, table_size, name)
          THEN /\ Observe("add_login", name, "False")
               /\ UNCHANGED <<buckets, login_set, login_count>>
          ELSE /\ buckets' = CuckooInsert(buckets, table_size, name)
               /\ login_set' = login_set \cup {name}
               /\ login_count' = login_count + 1
               /\ Observe("add_login", name, "True")
    /\ UNCHANGED <<logins, bloom>>
    /\ UNCHANGED config

CuckooAddLogin(name) ==
    /\ Busy("CuckooFilterChecker")
    /\ LET maybe == CuckooContains(buckets, table_size, name) IN
       /\ comparisons' = comparisons + (IF maybe THEN 2 ELSE 1)
       /\ IF maybe /\ name \in login_set
          THEN /\ Observe("add_login", name, "False")
               /\ UNCHANGED <<buckets, login_set, login_count>>
          ELSE IF CuckooFull(buckets, table_size, name)
               THEN \* self.cuckoo.insert raises; the lines after it do not run
                    /\ Observe("add_login", name, "CapacityExceeded")
                    /\ UNCHANGED <<buckets, login_set, login_count>>
               ELSE /\ buckets' = CuckooInsert(buckets, table_size, name)
                    /\ login_set' = login_set \cup {name}
                    /\ login_count' = login_count + 1
                    /\ Observe("add_login", name, "True")
    /\ UNCHANGED <<logins, bloom>>
    /\ UNCHANGED config

\* Variant: a positive filter answer is returned without the set probe.
CuckooCheckExistsTrustFilter(name) ==
    /\ Busy("CuckooFilterChecker")
    /\ IF ~CuckooContains(buckets, table_size, name)
       THEN /\ comparisons' = comparisons + 1
            /\ Observe("check_exists", name, "False")
       ELSE /\ comparisons' = comparisons + 2
            /\ Observe("check_exists", name, "True")
    /\ UNCHANGED <<logins, login_set, bloom, buckets, login_count>>
    /\ UNCHANGED config

CuckooCheckExists(name) ==
    /\ Busy("CuckooFilterChecker")
    /\ IF ~CuckooContains(buckets, table_size, name)
       THEN /\ comparisons' = comparisons + 1
            /\ Observe("check_exists", name, "False")
       ELSE /\ comparisons' = comparisons + 2
            /\ Observe("check_exists", name,
                       IF name \in login_set THEN "True" ELSE "False")
    /\ UNCHANGED <<logins, login_set, bloom, buckets, login_count>>
    /\ UNCHANGED config

\* ---------------------------------------------------------- specification

AddLogin(name) ==
    \/ ListAddLogin(name)
    \/ SortedAddLogin(name)
    \/ HashAddLogin(name)
    \/ BloomAddLogin(name)
    \/ CuckooAddLogin(name)

CheckExists(name) ==
    \/ ListCheckExists(name)
    \/ SortedCheckExists(name)
    \/ HashCheckExists(name)
    \/ BloomCheckExists(name)
    \/ CuckooCheckExists(name)

\* The call is made by a caller other than run_test.
Direct == UNCHANGED <<ops, harness, fleet>>

Next ==
    \/ \E name \in Ids :
          \/ ListAddLogin(name) /\ Direct
          \/ SortedAddLogin(name) /\ Direct
          \/ HashAddLogin(name) /\ Direct
          \/ BloomAddLogin(name) /\ Direct
          \/ CuckooAddLogin(name) /\ Direct
    \/ \E name \in Ids :
          \/ ListCheckExists(name) /\ Direct
          \/ SortedCheckExists(name) /\ Direct
          \/ HashCheckExists(name) /\ Direct
          \/ BloomCheckExists(name) /\ Direct
          \/ CuckooCheckExists(name) /\ Direct
    \/ ResetStats /\ Direct

Spec == Init /\ [][Next]_vars

\* The scenario of nine identifiers added in turn to a fingerprint table of
\* one bucket, the caller going on after an error.
InitScenario ==
    /\ EmptyChecker
    /\ NoHarness
    /\ kind = "CuckooFilterChecker"
    /\ capacity = DefaultCapacity /\ error_rate = DefaultErrorRate
    /\ table_size = 1
    /\ status = CuckooFilterCheckerInit(capacity, error_rate)
    /\ buckets = [i \in 0..(table_size - 1) |-> << >>]

AddInTurn ==
    \E name \in ScenarioIdSet :
        /\ name = Cardinality(called) + 1
        /\ CuckooAddLogin(name)
        /\ Direct

CheckAny ==
    \E name \in ScenarioIdSet :
        CuckooCheckExists(name) /\ Direct

NextScenario ==
    \/ AddInTurn
    \/ CheckAny
    \/ ResetStats /\ Direct

SpecScenario == InitScenario /\ [][NextScenario]_vars

\* -------------------------------------------------------------- run_test

\* Names are numbered in their string order.  Between two consecutive
\* synthetic names, before the first and after the last, there is room for
\* as many distinct names as a loaded list is long.
Stride == MaxLogins + 1

\* f"nonexistent{i}", for the indices i of a run (0 .. num_lookups - 1,
\* single digits): in index order among themselves and before every
\* generated name, 'n' < 'u'.
Nonexistent(i) == (i - MaxLookups) * Stride

SyntheticNames == { Nonexistent(i) : i \in 0..(MaxLookups - 1) }

\* The lines of a login file: every synthetic name, and MaxLogins names
\* in each interval that the synthetic names cut the strings into (such
\* as 'alice' before them all, 'nonexistent11' and 'nonexistent12'
\* between 'nonexistent1' and 'nonexistent2', 'yan' and 'zoe' after them).
FileNames == (Nonexistent(0) - MaxLogins)..(0 - 1)

\* logins: a list loaded from a file (any names, repeats included, cut to
\* num_logins), or the generated user0, user1, ... of that length (single
\* digits, so that their string order is their numeric order).
LoadedLogins == UNION { [1..n -> FileNames] : n \in 0..MaxLogins }

GeneratedLogins == { [j \in 1..n |-> j] : n \in 0..MaxId }

\* Variant: the index into logins wraps around instead of being bounded.
LookupNameWrapped(list, i) ==
    IF i % 2 = 0 /\ Len(list) > 0
    THEN list[((i \div 2) % Len(list)) + 1]
    ELSE Nonexistent(i)

\* lookup_names[i]
LookupName(list, i) ==
    IF i % 2 = 0 /\ i \div 2 < Len(list)
    THEN list[(i \div 2) + 1]
    ELSE Nonexistent(i)

\* checker = checker_class(), with the arguments' defaults, and logins
InitRunTest ==
    /\ EmptyChecker
    /\ capacity = DefaultCapacity /\ error_rate = DefaultErrorRate
    /\ \/ /\ kind = "ListLinearSearchChecker"
          /\ table_size = 0
          /\ status = ListLinearSearchCheckerInit
       \/ /\ kind = "SortedArrayBinarySearchChecker"
          /\ table_size = 0
          /\ status = SortedArrayBinarySearchCheckerInit
       \/ /\ kind = "HashTableChecker"
          /\ table_size = 0
          /\ status = HashTableCheckerInit
       \/ /\ kind = "BloomFilterChecker"
          /\ table_size = 0
          /\ status = BloomFilterCheckerInit(capacity, error_rate)
       \/ /\ kind = "CuckooFilterChecker"
          /\ table_size \in 1..MaxTableSize
          /\ status = CuckooFilterCheckerInit(capacity, error_rate)
    /\ buckets = [i \in 0..(table_size - 1) |-> << >>]
    /\ ops = 0
    /\ pc = "add"
    /\ test_logins \in LoadedLogins \cup GeneratedLogins
    /\ num_lookups \in 0..MaxLookups
    /\ cursor = 0
    /\ add_comparisons = 0
    /\ lookup_comparisons = 0
    /\ found_count = 0
    /\ add_charged = 0
    /\ lookup_charged = 0
    /\ fleet = << >>

\* for login in logins: checker.add_login(login)
RunAdd ==
    /\ pc = "add"
    /\ cursor < Len(test_logins)
    /\ AddLogin(test_logins[cursor + 1])
    /\ cursor' = cursor + 1
    /\ pc' = IF result' = "CapacityExceeded" THEN "raised" ELSE "add"
    /\ add_charged' = add_charged + (comparisons' - comparisons)
    /\ UNCHANGED <<ops, test_logins, num_lookups, add_comparisons,
                   lookup_comparisons, found_count, lookup_charged, fleet>>

\* Variant: the counter is read after it has been reset.
RunResetReadLate ==
    /\ pc = "add"
    /\ cursor = Len(test_logins)
    /\ ResetStats
    /\ add_comparisons' = comparisons'
    /\ pc' = "lookup"
    /\ cursor' = 0
    /\ UNCHANGED <<ops, test_logins, num_lookups, lookup_comparisons,
                   found_count, add_charged, lookup_charged, fleet>>

\* add_comparisons = checker.comparisons; checker.reset_stats()
RunReset ==
    /\ pc = "add"
    /\ cursor = Len(test_logins)
    /\ add_comparisons' = comparisons
    /\ ResetStats
    /\ pc' = "lookup"
    /\ cursor' = 0
    /\ UNCHANGED <<ops, test_logins, num_lookups, lookup_comparisons,
                   found_count, add_charged, lookup_charged, fleet>>

\* found_count = sum(1 for name in lookup_names if checker.check_exists(name))
RunLookup ==
    /\ pc = "lookup"
    /\ cursor < num_lookups
    /\ CheckExists(LookupName(test_logins, cursor))
    /\ found_count' = found_count + (IF result' = "True" THEN 1 ELSE 0)
    /\ cursor' = cursor + 1
    /\ lookup_charged' = lookup_charged + (comparisons' - comparisons)
    /\ UNCHANGED <<ops, pc, test_logins, num_lookups, add_comparisons,
                   lookup_comparisons, add_charged, fleet>>

\* lookup_comparisons = checker.comparisons; return {...}
RunReturn ==
    /\ pc = "lookup"
    /\ cursor = num_lookups
    /\ lookup_comparisons' = comparisons
    /\ pc' = "done"
    /\ UNCHANGED <<logins, login_set, bloom, buckets, comparisons,
                   login_count, op, arg, result, accepted, called>>
    /\ UNCHANGED config
    /\ UNCHANGED <<ops, test_logins, num_lookups, cursor, add_comparisons,
                   found_count, add_charged, lookup_charged, fleet>>

NextRunTest == RunAdd \/ RunReset \/ RunLookup \/ RunReturn

SpecRunTest == InitRunTest /\ [][NextRunTest]_vars

\* ------------------------------------------- five checkers side by side

Kinds ==
    {"ListLinearSearchChecker", "SortedArrayBinarySearchChecker",
     "HashTableChecker", "BloomFilterChecker", "CuckooFilterChecker"}

FleetIds == 1..MaxFleetId

\* The fields of a freshly constructed instance of class k.
NewChecker(k, size) ==
    [kind |-> k, table_size |-> size,
     logins |-> << >>, login_set |-> {}, bloom |-> {},
     buckets |-> [i \in 0..(size - 1) |-> << >>],
     comparisons |-> 0, login_count |-> 0, result |-> "None"]

\* The operations as functions of the instance's fields: what add_login,
\* check_exists and reset_stats make of the instance c.
Answer(c, charged, r) ==
    [c EXCEPT !.comparisons = @ + charged, !.result = r]

Accept(c, charged) ==
    [c EXCEPT !.comparisons = @ + charged, !.result = "True",
              !.login_count = @ + 1]

ListAddLoginOf(c, name) ==
    LET s == LinearSearch(c.logins, name, 0) IN
    IF s.found
    THEN Answer(c, s.comparisons, "False")
    ELSE [Accept(c, s.comparisons) EXCEPT !.logins = Append(@, name)]

SortedAddLoginOf(c, name) ==
    LET s == BinarySearch(c.logins, name, 0, Len(c.logins) - 1, 0) IN
    IF s.found
    THEN Answer(c, s.comparisons, "False")
    ELSE [Accept(c, s.comparisons) EXCEPT
            !.logins = ListInsert(@, s.left, name)]

HashAddLoginOf(c, name) ==
    IF name \in c.login_set
    THEN Answer(c, 1, "False")
    ELSE [Accept(c, 1) EXCEPT !.login_set = @ \cup {name}]

\* Variant: a positive answer of the filter is taken for a duplicate.
BloomAddLoginOfTrusting(c, name) ==
    IF BloomContains(c.bloom, name)
    THEN Answer(c, 1, "False")
    ELSE [Accept(c, 1) EXCEPT !.bloom = BloomAdd(@, name),
                              !.login_set = @ \cup {name}]

BloomAddLoginOf(c, name) ==
    LET maybe == BloomContains(c.bloom, name)
        charged == IF maybe THEN 2 ELSE 1 IN
    IF maybe /\ name \in c.login_set
    THEN Answer(c, charged, "False")
    ELSE [Accept(c, charged) EXCEPT !.bloom = BloomAdd(@, name),
                                    !.login_set = @ \cup {name}]

CuckooAddLoginOf(c, name) ==
    LET maybe == CuckooContains(c.buckets, c.table_size, name)
        charged == IF maybe THEN 2 ELSE 1 IN
    IF maybe /\ name \in c.login_set
    THEN Answer(c, charged, "False")
    ELSE IF CuckooFull(c.buckets, c.table_size, name)
         THEN Answer(c, charged, "CapacityExceeded")
         ELSE [Accept(c, charged) EXCEPT
                 !.buckets = CuckooInsert(@, c.table_size, name),
                 !.login_set = @ \cup {name}]

\* Variant of the dispatch with the trusting Bloom add.
AddLoginOfTrusting(c, name) ==
    CASE c.kind = "ListLinearSearchChecker" -> ListAddLoginOf(c, name)
      [] c.kind = "SortedArrayBinarySearchChecker" -> SortedAddLoginOf(c, name)
      [] c.kind = "HashTableChecker" -> HashAddLoginOf(c, name)
      [] c.kind = "BloomFilterChecker" -> BloomAddLoginOfTrusting(c, name)
      [] c.kind = "CuckooFilterChecker" -> CuckooAddLoginOf(c, name)

AddLoginOf(c, name) ==
    CASE c.kind = "ListLinearSearchChecker" -> ListAddLoginOf(c, name)
      [] c.kind = "SortedArrayBinarySearchChecker" -> SortedAddLoginOf(c, name)
      [] c.kind = "HashTableChecker" -> HashAddLoginOf(c, name)
      [] c.kind = "BloomFilterChecker" -> BloomAddLoginOf(c, name)
      [] c.kind = "CuckooFilterChecker" -> CuckooAddLoginOf(c, name)

Boolean(b) == IF b THEN "True" ELSE "False"

CheckExistsOf(c, name) ==
    CASE c.kind = "ListLinearSearchChecker" ->
            LET s == LinearSearch(c.logins, name, 0) IN
            Answer(c, s.comparisons, Boolean(s.found))
      [] c.kind = "SortedArrayBinarySearchChecker" ->
            LET s == BinarySearch(c.logins, name, 0, Len(c.logins) - 1, 0) IN
            Answer(c, s.comparisons, Boolean(s.found))
      [] c.kind = "HashTableChecker" ->
            Answer(c, 1, Boolean(name \in c.login_set))
      [] c.kind = "BloomFilterChecker" ->
            IF ~BloomContains(c.bloom, name)
            THEN Answer(c, 1, "False")
            ELSE Answer(c, 2, Boolean(name \in c.login_set))
      [] c.kind = "CuckooFilterChecker" ->
            IF ~CuckooContains(c.buckets, c.table_size, name)
            THEN Answer(c, 1, "False")
            ELSE Answer(c, 2, Boolean(name \in c.login_set))

ResetStatsOf(c) == [c EXCEPT !.comparisons = 0, !.result = "None"]

\* A fresh instance of each class, the fingerprint table being the
\* smallest one (a single bucket, which is the first to fill up).  In this
\* specification op and arg are the call given to all five, and result
\* keeps the capacity error once any of them has raised it.
InitFleet ==
    /\ EmptyChecker
    /\ ops = 0 /\ pc = "none" /\ test_logins = << >> /\ num_lookups = 0
    /\ cursor = 0 /\ add_comparisons = 0 /\ lookup_comparisons = 0
    /\ found_count = 0 /\ add_charged = 0 /\ lookup_charged = 0
    /\ kind = "all"
    /\ capacity = DefaultCapacity /\ error_rate = DefaultErrorRate
    /\ table_size = 0
    /\ status = "ready"
    /\ buckets = << >>
    /\ fleet = [k \in Kinds |->
                  NewChecker(k, IF k = "CuckooFilterChecker" THEN 1 ELSE 0)]

FleetBusy == \A k \in Kinds : fleet[k].comparisons < MaxComparisons

Raised(f) == \E k \in Kinds : f[k].result = "CapacityExceeded"

FleetCall(o, a) ==
    /\ op' = o
    /\ arg' = a
    /\ result' = IF Raised(fleet') THEN "CapacityExceeded" ELSE result
    /\ UNCHANGED <<logins, login_set, bloom, buckets, comparisons,
                   login_count, accepted, called, ops, harness>>
    /\ UNCHANGED config

FleetAdd ==
    \E name \in FleetIds :
        /\ FleetBusy
        /\ fleet' = [k \in Kinds |-> AddLoginOf(fleet[k], name)]
        /\ FleetCall("add_login", name)

FleetCheck ==
    \E name \in FleetIds :
        /\ FleetBusy
        /\ fleet' = [k \in Kinds |-> CheckExistsOf(fleet[k], name)]
        /\ FleetCall("check_exists", name)

FleetReset ==
    /\ fleet' = [k \in Kinds |-> ResetStatsOf(fleet[k])]
    /\ FleetCall("reset_stats", 0)

NextFleet == FleetAdd \/ FleetCheck \/ FleetReset

SpecFleet == InitFleet /\ [][NextFleet]_vars

\* A caller of HashTableChecker that counts its calls.
InitHash ==
    /\ EmptyChecker
    /\ NoHarness
    /\ kind = "HashTableChecker"
    /\ capacity = DefaultCapacity /\ error_rate = DefaultErrorRate
    /\ table_size = 0
    /\ status = HashTableCheckerInit
    /\ buckets = [i \in 0..(table_size - 1) |-> << >>]

HashAdd ==
    \E name \in Ids :
        HashAddLogin(name) /\ ops' = ops + 1 /\ UNCHANGED <<harness, fleet>>

HashCheck ==
    \E name \in Ids :
        HashCheckExists(name) /\ ops' = ops + 1
                              /\ UNCHANGED <<harness, fleet>>

HashReset == ResetStats /\ ops' = 0 /\ UNCHANGED <<harness, fleet>>

NextHash == HashAdd \/ HashCheck \/ HashReset

SpecHash == InitHash /\ [][NextHash]_vars

\* ------------------------------------------------------------- properties

ListKinds == {"ListLinearSearchChecker", "SortedArrayBinarySearchChecker"}

SetKinds == {"HashTableChecker", "BloomFilterChecker", "CuckooFilterChecker"}

FilterKinds == {"BloomFilterChecker", "CuckooFilterChecker"}

Stored == { logins[i] : i \in 1..Len(logins) }

Storage == <<logins, login_set, bloom, buckets, login_count>>

\* The fingerprint table cannot place arg' in the state before the step.
CannotPlace ==
    /\ kind = "CuckooFilterChecker"
    /\ arg' \notin login_set
    /\ CuckooFull(buckets, table_size, arg')

\* C1 as stated: the first add_login(x) returns True and every later
\* add_login(x) returns False, for every strategy.
C1_FirstTrueLaterFalse ==
    [][op' = "add_login" =>
         result' = (IF arg' \in called THEN "False" ELSE "True")]_vars

\* C1, amended: add_login(x) returns False once x has been accepted;
\* before that it returns True, except that it raises the capacity error
\* when the fingerprint table cannot place x.
C1_AddLoginResult ==
    [][op' = "add_login" =>
         result' = (IF arg' \in accepted THEN "False"
                    ELSE IF CannotPlace THEN "CapacityExceeded"
                    ELSE "True")]_vars

C1_Witness ==
    /\ op = "add_login" /\ result = "False"
    /\ arg \in accepted /\ Cardinality(accepted) >= 2

\* C2: no false negatives: once add_login(x) has returned True, every
\* later check_exists(x) returns True.
C2_NoFalseNegative ==
    [][op' = "check_exists" /\ arg' \in accepted => result' = "True"]_vars

C2_Witness ==
    /\ kind = "CuckooFilterChecker"
    /\ op = "check_exists" /\ arg \in accepted /\ result = "True"
    /\ called \ accepted # {}

\* C3: no false positive escapes: check_exists(x) returns False for every
\* x never accepted, also when the filter reports x as possibly present.
C3_NoFalsePositive ==
    [][op' = "check_exists" /\ arg' \notin accepted => result' = "False"]_vars

C3_Witness ==
    /\ kind = "BloomFilterChecker"
    /\ op = "check_exists" /\ arg \notin accepted /\ result = "False"
    /\ BloomContains(bloom, arg)

\* C4: login_count is the number of distinct identifiers accepted, which
\* is the number of entries of the exact storage, and the storage holds no
\* identifier twice.
C4_LoginCount ==
    /\ login_count = Cardinality(accepted)
    /\ kind \in ListKinds =>
          /\ Len(logins) = login_count
          /\ Stored = accepted
    /\ kind \in SetKinds =>
          /\ login_set = accepted
          /\ Cardinality(login_set) = login_count

C4_Witness ==
    /\ op = "add_login" /\ result = "False"
    /\ login_count >= 3

\* C5: the stored list of SortedArrayBinarySearchChecker is in
\* non-decreasing order after any sequence of add_login calls.
C5_Sorted ==
    kind = "SortedArrayBinarySearchChecker" =>
        \A i \in 1..Len(logins) : \A j \in i..Len(logins) :
            logins[i] <= logins[j]

C5_Witness ==
    /\ kind = "SortedArrayBinarySearchChecker"
    /\ op = "add_login" /\ result = "True"
    /\ Len(logins) >= 3 /\ logins[2] = arg

\* C6: when the fingerprint table cannot place the identifier,
\* CuckooFilterChecker.add_login raises the capacity error (neither True
\* nor False) and records nothing: backing set and login_count unchanged.
C6_CapacityExceeded ==
    [][op' = "add_login" /\ CannotPlace =>
         /\ result' = "CapacityExceeded"
         /\ login_set' = login_set
         /\ login_count' = login_count
         /\ accepted' = accepted]_vars

C6_Witness ==
    /\ kind = "CuckooFilterChecker" /\ table_size > 1
    /\ op = "add_login" /\ result = "CapacityExceeded"
    /\ arg \notin login_set

BadConfiguration == capacity <= 0 \/ error_rate <= 0 \/ error_rate >= 1000

\* C7 as stated: either filter-backed checker fails at construction when
\* given a non-positive capacity or an out-of-range error rate.
C7_BothFailAtConstruction ==
    kind \in FilterKinds /\ BadConfiguration => status = "ConstructionError"

\* C7, amended: BloomFilterChecker fails at construction on such a
\* configuration and no operation ever runs on it; CuckooFilterChecker
\* ignores both arguments and is always constructed.
C7_BloomFailsCuckooIgnores ==
    /\ kind = "BloomFilterChecker" /\ BadConfiguration =>
          /\ status = "ConstructionError"
          /\ op = "none" /\ login_count = 0 /\ comparisons = 0
    /\ kind = "CuckooFilterChecker" => status = "ready"

C7_Witness ==
    /\ kind = "CuckooFilterChecker" /\ BadConfiguration
    /\ op = "add_login" /\ result = "True"

\* C8: with bucket capacity 4 and table size 1, nine distinct identifiers
\* added in turn: the ninth add_login raises the capacity error; it is
\* neither accepted nor recorded.
C8_NinthInsertFails ==
    (table_size = 1 /\ BucketSize = 4 /\ 9 \in called) =>
        /\ op = "add_login" /\ arg = 9 => result = "CapacityExceeded"
        /\ 9 \notin login_set
        /\ 9 \notin accepted

C8_Witness ==
    /\ table_size = 1 /\ called = 1..9
    /\ op = "add_login" /\ arg = 9 /\ result = "CapacityExceeded"

\* C9: an add_login that returns False, and every check_exists, leave the
\* stored identifiers, their order, the filter contents and login_count
\* unchanged; the comparison counter does not decrease.
C9_RejectAndCheckFrame ==
    [][(op' = "add_login" /\ result' = "False") \/ op' = "check_exists" =>
         /\ UNCHANGED Storage
         /\ accepted' = accepted
         /\ comparisons' >= comparisons]_vars

C9_Witness ==
    /\ kind = "ListLinearSearchChecker"
    /\ op = "check_exists" /\ result = "True"
    /\ Len(logins) >= 2 /\ logins[2] = arg

\* C10: reset_stats sets the comparison counter to zero and changes
\* nothing else; no other operation decreases the counter.
C10_ResetStats ==
    [][/\ op' = "reset_stats" =>
            /\ comparisons' = 0
            /\ UNCHANGED Storage
            /\ UNCHANGED config
            /\ accepted' = accepted
       /\ op' # "reset_stats" => comparisons' >= comparisons]_vars

C10_Witness ==
    /\ op = "reset_stats" /\ comparisons = 0
    /\ login_count >= 2

Lookup == {"add_login", "check_exists"}

\* The filter's answer for arg' in the state before the step.
FilterMaybe ==
    IF kind = "BloomFilterChecker"
    THEN BloomContains(bloom, arg')
    ELSE CuckooContains(buckets, table_size, arg')

\* C11: a filter-backed checker charges every add_login and check_exists
\* 1 comparison when the filter reports the identifier absent and 2 when
\* it reports it possibly present; so an operation on an accepted
\* identifier charges 2.
C11_TwoStepCharge ==
    [][(kind \in FilterKinds) /\ op' \in Lookup =>
         /\ comparisons' = comparisons + (IF FilterMaybe THEN 2 ELSE 1)
         /\ (arg' \in accepted => comparisons' = comparisons + 2)]_vars

\* An add accepted after a false positive of the Bloom filter, charged 2.
C11_Witness ==
    /\ kind = "BloomFilterChecker"
    /\ op = "add_login" /\ result = "True" /\ comparisons = 2
    /\ Cardinality(accepted) >= 3
    /\ BloomPositions(arg) \subseteq
          UNION { BloomPositions(y) : y \in accepted \ {arg} }

\* 1-based position of name in list, 0 when absent.
Position(list, name) ==
    IF \E i \in 1..Len(list) : list[i] = name
    THEN CHOOSE i \in 1..Len(list) :
            list[i] = name /\ \A j \in 1..(i - 1) : list[j] # name
    ELSE 0

\* C12: ListLinearSearchChecker holding n identifiers charges add_login(x)
\* and check_exists(x) exactly n when x is absent and exactly i+1 when x
\* is the element at 0-based position i; nothing on an empty checker.
C12_LinearCharge ==
    [][kind = "ListLinearSearchChecker" /\ op' \in Lookup =>
         comparisons' = comparisons +
            (IF Position(logins, arg') = 0
             THEN Len(logins) ELSE Position(logins, arg'))]_vars

C12_Witness ==
    /\ kind = "ListLinearSearchChecker"
    /\ op = "check_exists" /\ result = "True"
    /\ Len(logins) >= 3 /\ logins[2] = arg /\ comparisons = 2

RECURSIVE FloorLog2(_)
FloorLog2(n) == IF n <= 1 THEN 0 ELSE 1 + FloorLog2(n \div 2)

\* C15: SortedArrayBinarySearchChecker holding n identifiers charges each
\* add_login and check_exists nothing when n = 0, and otherwise at least 1
\* and at most floor(log2(n)) + 1 comparisons.
C15_BinaryCharge ==
    [][kind = "SortedArrayBinarySearchChecker" /\ op' \in Lookup =>
         IF Len(logins) = 0
         THEN comparisons' = comparisons
         ELSE /\ comparisons' >= comparisons + 1
              /\ comparisons' <= comparisons + FloorLog2(Len(logins)) + 1
        ]_vars

\* A miss on four identifiers that takes the full three probes.
C15_Witness ==
    /\ kind = "SortedArrayBinarySearchChecker"
    /\ op = "check_exists" /\ result = "False"
    /\ Len(logins) = 4 /\ comparisons = 3

\* C13: HashTableChecker charges every add_login and check_exists exactly
\* 1 comparison, present or absent, whatever the size; so after k
\* operations since construction or reset_stats the counter is k.
C13_HashCharge ==
    /\ [](comparisons = ops)
    /\ [][op' \in Lookup => comparisons' = comparisons + 1]_vars

\* Three operations after a reset: more identifiers were added than
\* operations counted.
C13_Witness ==
    /\ kind = "HashTableChecker"
    /\ op = "check_exists" /\ result = "True"
    /\ ops = 3 /\ comparisons = 3 /\ login_count >= 4

\* C14: run_test makes all add_login calls, reads the counter as
\* add_comparisons, resets it, then makes all check_exists calls; so
\* add_comparisons is what the adds alone were charged and
\* lookup_comparisons what the lookups alone were charged.
C14_PhasesAndCounts ==
    /\ [](pc = "done" =>
            /\ add_comparisons = add_charged
            /\ lookup_comparisons = lookup_charged)
    /\ [][/\ op' = "add_login" => pc = "add"
          /\ (pc = "add" /\ pc' = "lookup") =>
                /\ cursor = Len(test_logins)
                /\ add_comparisons' = comparisons
                /\ op' = "reset_stats" /\ comparisons' = 0
          /\ pc = "lookup" =>
                /\ pc' \in {"lookup", "done"}
                /\ op' # "check_exists" => pc' = "done"
                /\ UNCHANGED <<called, login_count, add_comparisons>>
          /\ pc = "done" => UNCHANGED vars
         ]_vars

C14_Witness ==
    /\ kind = "ListLinearSearchChecker" /\ pc = "done"
    /\ add_comparisons = 3 /\ lookup_comparisons = 9
    /\ Len(test_logins) = 3 /\ num_lookups = 4

Min(a, b) == IF a <= b THEN a ELSE b

\* None of the identifiers to add is a 'nonexistent<i>' name.
NoSyntheticLogin ==
    \A j \in 1..Len(test_logins) : test_logins[j] \notin SyntheticNames

\* A login file holding 'nonexistent1' and 'nonexistent3': all four
\* lookups are found.
SyntheticLoginFound ==
    /\ pc = "done"
    /\ test_logins = <<Nonexistent(1), Nonexistent(3)>>
    /\ num_lookups = 4 /\ found_count = 4

\* C16: run_test over L identifiers (none a generated 'nonexistent' name)
\* and num_lookups lookups reports lookups_found =
\* min(ceil(num_lookups / 2), L): exactly the even-indexed lookups whose
\* index / 2 is below L are found, duplicates in the list or not.
C16_LookupsFound ==
    /\ []((pc = "done" /\ NoSyntheticLogin) =>
            found_count = Min((num_lookups + 1) \div 2, Len(test_logins)))
    /\ [][(pc = "lookup" /\ cursor' = cursor + 1 /\ NoSyntheticLogin) =>
            ((result' = "True") <=>
                (cursor % 2 = 0 /\ cursor \div 2 < Len(test_logins)))]_vars

\* A list with a repeated identifier, and a filter false positive on the
\* last synthetic name.
C16_Witness ==
    /\ pc = "done" /\ kind = "BloomFilterChecker"
    /\ NoSyntheticLogin
    /\ Len(test_logins) = 2 /\ test_logins[1] = test_logins[2]
    /\ num_lookups = 4 /\ found_count = 2
    /\ arg = Nonexistent(3) /\ BloomContains(bloom, arg)

\* The fields of the one checker of Spec, as an instance of the fleet.
View ==
    [kind |-> kind, table_size |-> table_size,
     logins |-> logins, login_set |-> login_set, bloom |-> bloom,
     buckets |-> buckets, comparisons |-> comparisons,
     login_count |-> login_count, result |-> result]

\* The operations as functions agree with the operations as actions.
StepsAgree ==
    [][/\ op' = "add_login" => View' = AddLoginOf(View, arg')
       /\ op' = "check_exists" => View' = CheckExistsOf(View, arg')
       /\ op' = "reset_stats" => View' = ResetStatsOf(View)]_vars

\* C17: the same sequence of add_login / check_exists / reset_stats calls
\* given to a fresh instance of each of the five classes: as long as no
\* capacity error has occurred, all five return the same boolean at every
\* step and hold the same login_count.
C17_SameAnswers ==
    (fleet # << >> /\ result # "CapacityExceeded") =>
        \A j \in Kinds : \A k \in Kinds :
            /\ fleet[j].result = fleet[k].result
            /\ fleet[j].login_count = fleet[k].login_count
            /\ op \in Lookup => fleet[k].result \in {"True", "False"}

\* All five have just accepted an identifier that both filters reported
\* as possibly present, and their counters differ.
C17_Witness ==
    /\ fleet # << >>
    /\ op = "add_login" /\ arg = 3
    /\ \A k \in Kinds : fleet[k].result = "True" /\ fleet[k].login_count = 3
    /\ fleet["BloomFilterChecker"].comparisons = 2
    /\ fleet["CuckooFilterChecker"].comparisons = 2
    /\ fleet["HashTableChecker"].comparisons = 1
    /\ fleet["ListLinearSearchChecker"].logins = <<2, 1, 3>>

====
